---- MODULE Spec2Model ----
(***************************************************************************)
(* Semantic relevance layer of the sales assistant: section extraction,    *)
(* structured embeddings, cosine similarity, threshold search and the      *)
(* category / competitor matchers (src/app/semantic_search.py and          *)
(* src/app/utils.py).                                                      *)
(*                                                                         *)
(* Representation of Python values                                         *)
(*   str    a sequence of tokens <<c, n>>: the piece c repeated n times.   *)
(*          Letters ("a", "b", "c", "x") are run-length encoded; every     *)
(*          other piece (white space, punctuation, a word, the words the   *)
(*          markers are made of) always has n = 1.  Offsets are token      *)
(*          offsets,                                                       *)
(*          0-based as in Python; len() is Width.                          *)
(*   list of floats   a tuple of integers (the empty list is << >>)        *)
(*   float score      hundredths, rounded down (0.65 is 65); comparisons   *)
(*          with the program's cut-offs, all multiples of 0.01, are exact  *)
(*   dict   a function; iteration follows insertion order, KeyOrder        *)
(***************************************************************************)
EXTENDS Integers, Sequences, FiniteSets, TLC

VARIABLES profile, call, loads

vars == <<profile, call, loads>>

----------------------------------------------------------------------------
(* Strings *)

NL == <<"\n", 1>>
SP == <<" ", 1>>
COLON == <<":", 1>>

Lit(c) == <<c, 1>>

\* len() of one piece
PieceLen(c) ==
    CASE c = "COMPANY NAME" -> 12
      [] c = "COMPANY DESCRIPTION" -> 19
      [] c = "MAIN HEADINGS" -> 13
      [] c = "ABOUT/MISSION" -> 13
      [] c = "LEADERSHIP INFORMATION" -> 22
      [] c = "JOB POSTINGS" -> 12
      [] c = "(TECH STACK INDICATORS)" -> 23
      [] c = "FINANCIAL INFORMATION" -> 21
      [] c = "MAIN CONTENT" -> 12
      [] c \in {"vs", "or", "to"} -> 2
      [] c \in {"like", "than"} -> 4
      [] c \in {"Unlike", "better", "canvas"} -> 6
      [] c = "similar" -> 7
      [] c = "companies" -> 9
      [] c = "LegacyCorp" -> 10
      [] c \in {"Acme", "acme", "Corp", "corp", ".com", "Apex", "apex"} -> 4
      [] c = "..." -> 3
      [] OTHER -> 1

IsLetter(c) == c \in {"a", "b", "c", "x"}

IsSpace(c) == c \in {" ", "\n"}

\* len(s), summed by halves
RECURSIVE Width(_)
Width(s) ==
    IF s = << >> THEN 0
    ELSE IF Len(s) = 1 THEN PieceLen(s[1][1]) * s[1][2]
    ELSE Width(SubSeq(s, 1, Len(s) \div 2))
         + Width(SubSeq(s, Len(s) \div 2 + 1, Len(s)))

\* s[a:b] for 0 <= a, b <= number of tokens
Slice(s, a, b) == IF b <= a THEN << >> ELSE SubSeq(s, a + 1, b)

\* pat occurs in s at token offset p
MatchesAt(s, pat, p) ==
    /\ p + Len(pat) <= Len(s)
    /\ \A i \in 1..Len(pat) : s[p + i] = pat[i]

\* str.find(pat, start): the lowest offset >= start where pat occurs, or -1
Find(s, pat, start) ==
    LET hits == {p \in start..(Len(s) - Len(pat)) : MatchesAt(s, pat, p)}
    IN  IF hits = {} THEN -1
        ELSE CHOOSE p \in hits : \A q \in hits : p <= q

\* the offsets of s that hold something other than white space
Inked(s) == {i \in 1..Len(s) : ~IsSpace(s[i][1])}

LStrip(s) ==
    IF Inked(s) = {} THEN << >>
    ELSE SubSeq(s, CHOOSE i \in Inked(s) : \A j \in Inked(s) : i <= j, Len(s))

RStrip(s) ==
    IF Inked(s) = {} THEN << >>
    ELSE SubSeq(s, 1, CHOOSE i \in Inked(s) : \A j \in Inked(s) : i >= j)

\* mutant of Strip: only the left end is stripped
StripLeft(s) == LStrip(s)

\* str.strip()
Strip(s) == RStrip(LStrip(s))

\* s[:k] in characters.  A run of letters is cut where the limit falls; a
\* multi-character piece cut in the middle leaves k letters that are no
\* longer that piece.
\* the number of whole tokens of s that fit in k characters
Whole(s, k) ==
    CHOOSE j \in 0..Len(s) :
        /\ Width(SubSeq(s, 1, j)) <= k
        /\ j < Len(s) => Width(SubSeq(s, 1, j + 1)) > k

Take(s, k) ==
    IF s = << >> \/ k <= 0 THEN << >>
    ELSE IF Whole(s, k) = Len(s) \/ Width(SubSeq(s, 1, Whole(s, k))) = k
    THEN SubSeq(s, 1, Whole(s, k))
    ELSE SubSeq(s, 1, Whole(s, k))
         \o <<<<IF IsLetter(s[Whole(s, k) + 1][1])
                THEN s[Whole(s, k) + 1][1] ELSE "x",
                k - Width(SubSeq(s, 1, Whole(s, k)))>>>>

\* s.count(c) for a letter c, summed by halves
RECURSIVE Count(_, _)
Count(s, c) ==
    IF s = << >> THEN 0
    ELSE IF Len(s) = 1 THEN (IF s[1][1] = c THEN s[1][2] ELSE 0)
    ELSE Count(SubSeq(s, 1, Len(s) \div 2), c)
         + Count(SubSeq(s, Len(s) \div 2 + 1, Len(s)), c)

----------------------------------------------------------------------------
(* Section markers *)

CompanyName == <<Lit("COMPANY NAME"), COLON>>
CompanyDescription == <<Lit("COMPANY DESCRIPTION"), COLON>>
MainHeadings == <<Lit("MAIN HEADINGS"), COLON>>
AboutMission == <<Lit("ABOUT/MISSION"), COLON>>
LeadershipInformation == <<Lit("LEADERSHIP INFORMATION"), COLON>>
JobPostings == <<Lit("JOB POSTINGS")>>
FinancialInformation == <<Lit("FINANCIAL INFORMATION"), COLON>>
MainContent == <<Lit("MAIN CONTENT"), COLON>>

\* the list extract_section scans for the next marker
Markers ==
    <<CompanyName, CompanyDescription, MainHeadings, AboutMission,
      LeadershipInformation, JobPostings, FinancialInformation, MainContent>>

\* the marker search_with_embeddings passes for each section name
MarkerOf(name) ==
    CASE name = "company_description" -> CompanyDescription
      [] name = "about" -> AboutMission
      [] name = "leadership" -> LeadershipInformation
      [] name = "jobs" -> JobPostings
      [] name = "financial" -> FinancialInformation
      [] name = "main_content" -> MainContent

\* sections with a marker, in the order the builder's dict lists them
MarkedSections ==
    <<"company_description", "about", "leadership", "jobs", "financial",
      "main_content">>

\* the enumerated section names of the data model
SectionNames ==
    {"company_description", "about", "leadership", "jobs", "financial",
     "main_content", "press"}

\* insertion order of every key an embeddings dict can hold
KeyOrder ==
    <<"company_description", "about", "leadership", "jobs", "financial",
      "main_content", "press", "combined", "error">>

----------------------------------------------------------------------------
(* extract_section *)

\* mutant of NextMarkerIdx: the latest other marker instead of the earliest
NextMarkerIdxLatest(text, section_marker, content_start) ==
    LET idxs == {Find(text, Markers[k], content_start) :
                    k \in {j \in 1..Len(Markers) : Markers[j] # section_marker}}
        found == idxs \ {-1}
    IN  IF found = {} THEN -1
        ELSE CHOOSE i \in found : \A j \in found : i >= j

\* offset of the earliest other marker at or after content_start, or -1
NextMarkerIdx(text, section_marker, content_start) ==
    LET idxs == {Find(text, Markers[k], content_start) :
                    k \in {j \in 1..Len(Markers) : Markers[j] # section_marker}}
        found == idxs \ {-1}
    IN  IF found = {} THEN -1
        ELSE CHOOSE i \in found : \A j \in found : i <= j

\* mutant of extract_section: an absent marker is not checked for and the
\* whole text is taken
extract_section_unchecked(text, section_marker) ==
    IF text = << >> \/ section_marker = << >> THEN << >>
    ELSE LET start_idx == Find(text, section_marker, 0)
             content_start == IF start_idx = -1 THEN 0
                              ELSE Find(text, <<NL>>, start_idx)
         IN  IF content_start = -1 THEN << >>
             ELSE LET next_marker_idx ==
                          NextMarkerIdx(text, section_marker, content_start)
                  IN  IF next_marker_idx = -1
                      THEN Strip(Slice(text, content_start, Len(text)))
                      ELSE Strip(Slice(text, content_start, next_marker_idx))

\* mutant of extract_section: the content starts right after the marker
extract_section_from_marker(text, section_marker) ==
    IF text = << >> \/ section_marker = << >> THEN << >>
    ELSE LET start_idx == Find(text, section_marker, 0)
         IN  IF start_idx = -1 THEN << >>
             ELSE LET content_start == start_idx + Len(section_marker)
                      next_marker_idx ==
                          NextMarkerIdx(text, section_marker, content_start)
                  IN  IF next_marker_idx = -1
                      THEN Strip(Slice(text, content_start, Len(text)))
                      ELSE Strip(Slice(text, content_start, next_marker_idx))

extract_section(text, section_marker) ==
    IF text = << >> \/ section_marker = << >> THEN << >>
    ELSE LET start_idx == Find(text, section_marker, 0)
         IN  IF start_idx = -1 THEN << >>
             ELSE LET content_start == Find(text, <<NL>>, start_idx)
                  IN  IF content_start = -1 THEN << >>
                      ELSE LET next_marker_idx ==
                                   NextMarkerIdx(text, section_marker, content_start)
                           IN  IF next_marker_idx = -1
                               THEN Strip(Slice(text, content_start, Len(text)))
                               ELSE Strip(Slice(text, content_start, next_marker_idx))

----------------------------------------------------------------------------
(* Embeddings and similarity *)

\* Python values an embeddings dict holds: a list of floats or a message
List(v) == [kind |-> "list", v |-> v]
Str(m) == [kind |-> "str", s |-> m]
None == [kind |-> "none"]

\* not e
Falsy(e) == \/ e.kind = "none"
            \/ e.kind = "list" /\ e.v = << >>
            \/ e.kind = "str" /\ e.s = ""

\* model.encode(text).tolist(): the backend is a deterministic stand-in that
\* counts the letters a, b and c; the letter x and every other piece carry
\* no signal.  Its dimensionality is fixed.
Encode(text) == <<Count(text, "a"), Count(text, "b"), Count(text, "c")>>

Dot(a, b) == a[1] * b[1] + a[2] * b[2] + a[3] * b[3]

\* the largest s in lo..hi with s * s * nn <= 10000 * dd, by bisection; lo
\* satisfies the inequality
RECURSIVE FloorRoot(_, _, _, _)
FloorRoot(lo, hi, dd, nn) ==
    IF lo = hi THEN lo
    ELSE LET mid == (lo + hi + 1) \div 2
         IN  IF mid * mid * nn <= 10000 * dd
             THEN FloorRoot(mid, hi, dd, nn)
             ELSE FloorRoot(lo, mid - 1, dd, nn)

\* mutant of Cosine: the rows are not normalised
CosineUnnormalised(a, b) == 100 * Dot(a, b)

\* cosine_similarity of two rows, dot(a, b) / (|a| |b|), in hundredths
\* rounded down; a zero row stays zero under sklearn's normalisation, so
\* its similarity is 0.0
Cosine(a, b) ==
    LET d == Dot(a, b)
        nn == Dot(a, a) * Dot(b, b)
        s == FloorRoot(0, 100, d * d, nn)
    IN  IF nn = 0 \/ d = 0 THEN 0
        ELSE IF d > 0 THEN s
        ELSE IF s * s * nn = 10000 * d * d THEN 0 - s
        ELSE 0 - (s + 1)

\* mutant of calculate_similarity: no early return, so an empty or absent
\* argument reaches sklearn, which rejects it
calculate_similarity_unguarded(embedding1, embedding2) ==
    IF embedding1.kind # "list" \/ embedding2.kind # "list"
    THEN [raised |-> TRUE, value |-> 0]
    ELSE IF embedding1.v = << >> \/ embedding2.v = << >>
    THEN [raised |-> TRUE, value |-> 0]
    ELSE [raised |-> FALSE, value |-> Cosine(embedding1.v, embedding2.v)]

\* calculate_similarity: [raised, value].  sklearn rejects a string and rows
\* of different width with a ValueError.
calculate_similarity(embedding1, embedding2) ==
    IF Falsy(embedding1) \/ Falsy(embedding2)
    THEN [raised |-> FALSE, value |-> 0]
    ELSE IF embedding1.kind # "list" \/ embedding2.kind # "list"
    THEN [raised |-> TRUE, value |-> 0]
    ELSE IF Len(embedding1.v) # Len(embedding2.v)
    THEN [raised |-> TRUE, value |-> 0]
    ELSE [raised |-> FALSE, value |-> Cosine(embedding1.v, embedding2.v)]

----------------------------------------------------------------------------
(* The embedding backend's failures *)

\* Backend calls of one operation are numbered from 1: the constructor
\* SentenceTransformer(...) is call 1, the encode calls follow.  A failure
\* input names the call that raises (0: none) and the exception's message.
MaxFailStep == 3

FailMsgs == {"model unavailable", ""}

NoFail == [step |-> 0, msg |-> "model unavailable"]

Fails == {NoFail} \cup [step : 1..MaxFailStep, msg : FailMsgs]

----------------------------------------------------------------------------
(* generate_structured_embeddings *)

MinSubstantial == 50
MaxEmbedChars == 5000

\* re.search(prefix + "(.*?)(?=" + term + ")", content, re.DOTALL): the
\* leftmost prefix decides, and the lazy group ends at the first term
ReSearch(content, prefix, term) ==
    LET i == Find(content, prefix, 0)
        s == i + Len(prefix)
        j == IF i = -1 THEN -1 ELSE Find(content, term, s)
    IN  IF j = -1 THEN [matched |-> FALSE, group |-> << >>]
        ELSE [matched |-> TRUE, group |-> Slice(content, s, j)]

\* re.search(prefix + "(.*?)$", content, re.DOTALL): without re.MULTILINE,
\* $ matches at the end and before a final line break
ReSearchToEnd(content, prefix) ==
    LET i == Find(content, prefix, 0)
        s == i + Len(prefix)
        n == Len(content)
        e == IF n - 1 >= s /\ content[n] = NL THEN n - 1 ELSE n
    IN  IF i = -1 THEN [matched |-> FALSE, group |-> << >>]
        ELSE [matched |-> TRUE, group |-> Slice(content, s, e)]

\* the sections dict of generate_structured_embeddings (its regex entries)
SectionMatch(content, name) ==
    CASE name = "company_description" ->
           ReSearch(content, CompanyDescription \o <<SP>>, <<NL, NL>>)
      [] name = "about" ->
           ReSearch(content, AboutMission \o <<NL>>,
                    <<NL, NL, Lit("LEADERSHIP INFORMATION")>>)
      [] name = "leadership" ->
           ReSearch(content, LeadershipInformation \o <<NL>>,
                    <<NL, NL, Lit("JOB POSTINGS")>>)
      [] name = "jobs" ->
           ReSearch(content,
                    <<Lit("JOB POSTINGS"), SP, Lit("(TECH STACK INDICATORS)"),
                      COLON, NL>>,
                    <<NL, NL, Lit("FINANCIAL INFORMATION")>>)
      [] name = "financial" ->
           ReSearch(content, FinancialInformation \o <<NL>>,
                    <<NL, NL, Lit("MAIN CONTENT")>>)
      [] name = "main_content" ->
           ReSearchToEnd(content, MainContent \o <<NL>>)

\* section_content of a marked section: group(1).strip(), or "" without match
SectionContent(content, name) ==
    LET m == SectionMatch(content, name)
    IN  IF m.matched THEN Strip(m.group) ELSE << >>

\* "Only embed substantial content"
Substantial(section_content) ==
    section_content # << >> /\ Width(section_content) > MinSubstantial

\* what the loop hands to model.encode for a section
EmbeddedText(section_content) ==
    IF Width(section_content) > MaxEmbedChars
    THEN Take(section_content, MaxEmbedChars)
    ELSE section_content

\* the marked sections the loop embeds, in order
EmbeddedSections(content) ==
    SelectSeq(MarkedSections,
              LAMBDA name : Substantial(SectionContent(content, name)))

\* mutant of CombinedText: the about text comes first
CombinedTextAboutFirst(content) ==
    LET d == SectionMatch(content, "company_description")
        a == SectionMatch(content, "about")
    IN  (IF a.matched THEN a.group ELSE << >>) \o <<SP>>
        \o (IF d.matched THEN d.group ELSE << >>)

\* combined_text: the unstripped groups of company_description and about
CombinedText(content) ==
    LET d == SectionMatch(content, "company_description")
        a == SectionMatch(content, "about")
    IN  (IF d.matched THEN d.group ELSE << >>) \o <<SP>>
        \o (IF a.matched THEN a.group ELSE << >>)

ErrorMap(msg) == [k \in {"error"} |-> Str(msg)]

\* mutant of BuildEmbeddings: the try block covers only the constructor, so
\* a failing encode leaves the entries made so far beside the diagnostic
\* entry
BuildEmbeddingsPartial(content, press_content, fail, names, combined_text) ==
    IF fail.step = 1
    THEN [created |-> FALSE, backend_raised |-> TRUE,
          embeddings |-> ErrorMap(fail.msg)]
    ELSE [created |-> TRUE,
          backend_raised |-> fail.step >= 2 /\ fail.step <= Len(names) + 1,
          embeddings |->
            [k \in (IF fail.step >= 2 /\ fail.step <= Len(names) + 1
                    THEN {names[i] : i \in 1..(fail.step - 2)} \cup {"error"}
                    ELSE {names[i] : i \in 1..Len(names)} \cup {"combined"}) |->
               IF k = "error" THEN Str(fail.msg)
               ELSE IF k = "combined"
               THEN List(Encode(Take(combined_text, MaxEmbedChars)))
               ELSE List(Encode(EmbeddedText(SectionContent(content, k))))]]

\* mutant of BuildEmbeddings: press_content is read as the string it is and
\* embedded whatever its length
BuildEmbeddingsPressUngated(content, press_content, fail, names, combined_text) ==
    IF fail.step = 1
    THEN [created |-> FALSE, backend_raised |-> TRUE,
          embeddings |-> ErrorMap(fail.msg)]
    ELSE IF fail.step >= 2 /\ fail.step <= Len(names) + 3
    THEN [created |-> TRUE, backend_raised |-> TRUE,
          embeddings |-> ErrorMap(fail.msg)]
    ELSE [created |-> TRUE, backend_raised |-> FALSE,
          embeddings |->
            [k \in {names[i] : i \in 1..Len(names)} \cup {"press", "combined"} |->
               IF k = "combined"
               THEN List(Encode(Take(combined_text, MaxEmbedChars)))
               ELSE IF k = "press" THEN List(Encode(press_content))
               ELSE List(Encode(EmbeddedText(SectionContent(content, k))))]]

\* The body of the try block and its except clause, given the sections the
\* loop embeds (names) and combined_text: [created, backend_raised,
\* embeddings].  created tells whether the constructor returned a model
\* instance, backend_raised whether a backend call raised.  The loop
\* reaches "press" last; a non-empty press_content is a str, and calling
\* .group on it raises AttributeError.  The except clause turns every
\* exception into the error map.
BuildEmbeddings(content, press_content, fail, names, combined_text) ==
    IF fail.step = 1
    THEN [created |-> FALSE, backend_raised |-> TRUE,
          embeddings |-> ErrorMap(fail.msg)]
    ELSE IF fail.step >= 2 /\ fail.step <= Len(names) + 1
    THEN [created |-> TRUE, backend_raised |-> TRUE,
          embeddings |-> ErrorMap(fail.msg)]
    ELSE IF press_content # << >>
    THEN [created |-> TRUE, backend_raised |-> FALSE,
          embeddings |-> ErrorMap("'str' object has no attribute 'group'")]
    ELSE IF combined_text # << >> /\ fail.step = Len(names) + 2
    THEN [created |-> TRUE, backend_raised |-> TRUE,
          embeddings |-> ErrorMap(fail.msg)]
    ELSE [created |-> TRUE, backend_raised |-> FALSE,
          embeddings |->
            [k \in {names[i] : i \in 1..Len(names)}
                   \cup (IF combined_text # << >> THEN {"combined"} ELSE {}) |->
               IF k = "combined"
               THEN List(Encode(Take(combined_text, MaxEmbedChars)))
               ELSE List(Encode(EmbeddedText(SectionContent(content, k))))]]

generate_structured_embeddings(company_data, fail) ==
    BuildEmbeddings(company_data.content, company_data.press_content, fail,
                    EmbeddedSections(company_data.content),
                    CombinedText(company_data.content))

\* mutant of generate_embedding: the try block covers only the constructor
generate_embedding_unguarded(text, fail) ==
    IF fail.step = 1
    THEN [created |-> FALSE, raised |-> FALSE, embedding |-> List(<< >>)]
    ELSE IF fail.step = 2
    THEN [created |-> TRUE, raised |-> TRUE, embedding |-> None]
    ELSE [created |-> TRUE, raised |-> FALSE,
          embedding |-> List(Encode(IF Width(text) > MaxEmbedChars
                                    THEN Take(text, MaxEmbedChars)
                                    ELSE text))]

\* generate_embedding: [created, raised, embedding]; any exception gives []
generate_embedding(text, fail) ==
    IF fail.step = 1
    THEN [created |-> FALSE, raised |-> FALSE, embedding |-> List(<< >>)]
    ELSE IF fail.step = 2
    THEN [created |-> TRUE, raised |-> FALSE, embedding |-> List(<< >>)]
    ELSE [created |-> TRUE, raised |-> FALSE,
          embedding |-> List(Encode(IF Width(text) > MaxEmbedChars
                                    THEN Take(text, MaxEmbedChars)
                                    ELSE text))]

----------------------------------------------------------------------------
(* scrape_website_content and scrape_company_data *)

MainContentLimit == 3000

Url == <<<<"x", 19>>>>

\* "Could not access {url}", returned when the request fails
CouldNotAccess == <<<<"x", 5>>, SP, <<"x", 3>>, SP, <<"x", 6>>, SP>> \o Url

\* the f-string that combines the extracted parts under the section markers
Blob(title_text, meta_content, headings_text, about_content, leadership_info, job_postings, financial_info, main_content) ==
    <<NL>> \o CompanyName \o <<SP>> \o title_text \o <<NL, NL>>
    \o CompanyDescription \o <<SP>> \o meta_content \o <<NL, NL>>
    \o MainHeadings \o <<NL>> \o headings_text \o <<NL, NL>>
    \o AboutMission \o <<NL>> \o about_content \o <<NL, NL>>
    \o LeadershipInformation \o <<NL>> \o leadership_info \o <<NL, NL>>
    \o <<Lit("JOB POSTINGS"), SP, Lit("(TECH STACK INDICATORS)"), COLON, NL>>
    \o job_postings \o <<NL, NL>>
    \o FinancialInformation \o <<NL>> \o financial_info \o <<NL, NL>>
    \o MainContent \o <<NL>> \o Take(main_content, MainContentLimit) \o <<NL>>

\* the company_data dict scrape_company_data returns, given what its two
\* embedding calls returned, with what the calls did to the backend
CompanyData(content, press_content, built, single) ==
    [created |-> (IF built.created THEN 1 ELSE 0)
                 + (IF single.created THEN 1 ELSE 0),
     single |-> single.embedding,
     raised |-> single.raised,
     backend_raised |-> built.backend_raised,
     data |-> [url |-> Url, content |-> content,
               press_content |-> press_content,
               embeddings |-> built.embeddings,
               embedding |-> IF "combined" \in DOMAIN built.embeddings
                             THEN built.embeddings["combined"]
                             ELSE single.embedding]]

\* scrape_company_data, given what the two scrapers returned; the default
\* argument of .get("combined", generate_embedding(content)) is evaluated
\* whether or not the key is present
scrape_company_data(content, press_content, fail, fail2) ==
    CompanyData(content, press_content,
                generate_structured_embeddings(
                    [url |-> Url, content |-> content,
                     press_content |-> press_content], fail),
                generate_embedding(content, fail2))

----------------------------------------------------------------------------
(* search_with_embeddings *)

\* the keys of a dict in insertion order
Keys(d) == SelectSeq(KeyOrder, LAMBDA k : k \in DOMAIN d)

\* mutant of ContentOf: the text the builder embedded instead of a fresh
\* extraction
ContentOfCached(section_name, company_data) ==
    IF section_name \in {"company_description", "about", "leadership", "jobs",
                         "financial", "main_content"}
    THEN SectionContent(company_data.content, section_name)
    ELSE IF section_name = "press" THEN company_data.press_content
    ELSE << >>

\* "Extract corresponding text content for context"
ContentOf(section_name, company_data) ==
    IF section_name \in {"company_description", "about", "leadership", "jobs",
                         "financial", "main_content"}
    THEN extract_section(company_data.content, MarkerOf(section_name))
    ELSE IF section_name = "press" THEN company_data.press_content
    ELSE << >>

\* mutants of Passes: a strict comparison, a reversed comparison
PassesStrict(similarity, threshold) == similarity > threshold

PassesBelow(similarity, threshold) == similarity <= threshold

\* if similarity >= threshold
Passes(similarity, threshold) == similarity >= threshold

\* [raised, created, results]: the constructor and the encode of the query
\* are not guarded, and neither is calculate_similarity
search_with_embeddings(query, company_data, threshold, fail) ==
    LET query_embedding == List(Encode(query))
        embeddings == company_data.embeddings
        sim == [k \in DOMAIN embeddings |->
                  calculate_similarity(query_embedding, embeddings[k])]
        hits == {k \in DOMAIN embeddings : Passes(sim[k].value, threshold)}
    IN  IF fail.step = 1
        THEN [raised |-> TRUE, created |-> FALSE, results |-> << >>]
        ELSE IF fail.step = 2 \/ \E k \in DOMAIN embeddings : sim[k].raised
        THEN [raised |-> TRUE, created |-> TRUE, results |-> << >>]
        ELSE [raised |-> FALSE, created |-> TRUE,
              results |-> [k \in hits |->
                             [score |-> sim[k].value,
                              content |-> ContentOf(k, company_data)]]]

----------------------------------------------------------------------------
(* find_product_category_matches *)

CategoryThreshold == 40
HighCut == 65
MediumCut == 50
MinFragment == 10
SnippetSentences == 3
SnippetFallback == 200

DOT == <<".", 1>>

\* str.split(sep) for a one-character separator
\* the offset (1-based) of the k-th sep of s; 0 for k = 0 and one past the
\* end when s has fewer than k
SepAt(s, sep, k) ==
    IF k = 0 THEN 0
    ELSE IF k > Cardinality({i \in 1..Len(s) : s[i] = sep}) THEN Len(s) + 1
    ELSE CHOOSE i \in 1..Len(s) :
            /\ s[i] = sep
            /\ Cardinality({j \in 1..i : s[j] = sep}) = k

Split(s, sep) ==
    [k \in 1..(Cardinality({i \in 1..Len(s) : s[i] = sep}) + 1) |->
        SubSeq(s, SepAt(s, sep, k - 1) + 1, SepAt(s, sep, k) - 1)]

\* sep.join(parts)
RECURSIVE Join(_, _)
Join(parts, sep) ==
    IF parts = << >> THEN << >>
    ELSE IF Len(parts) = 1 THEN parts[1]
    ELSE parts[1] \o sep \o Join(Tail(parts), sep)

RECURSIVE StripAll(_)
StripAll(parts) ==
    IF parts = << >> THEN << >>
    ELSE <<Strip(Head(parts))>> \o StripAll(Tail(parts))

\* mutant of Snippet: the first three fragments are taken before the short
\* ones are dropped
SnippetSliceFirst(content) ==
    LET relevant_sentences ==
            SelectSeq(SubSeq(StripAll(Split(content, DOT)), 1,
                             IF Len(Split(content, DOT)) < SnippetSentences
                             THEN Len(Split(content, DOT)) ELSE SnippetSentences),
                      LAMBDA sentence : Width(sentence) > MinFragment)
    IN  IF relevant_sentences # << >>
        THEN Join(relevant_sentences, <<DOT, SP>>)
        ELSE Take(content, SnippetFallback)

Snippet(content) ==
    LET relevant_sentences ==
            SelectSeq(StripAll(Split(content, DOT)),
                      LAMBDA sentence : Width(sentence) > MinFragment)
    IN  IF relevant_sentences # << >>
        THEN Join(SubSeq(relevant_sentences, 1,
                         IF Len(relevant_sentences) < SnippetSentences
                         THEN Len(relevant_sentences) ELSE SnippetSentences),
                  <<DOT, SP>>)
        ELSE Take(content, SnippetFallback)

\* mutant of Bucket: the medium cut excludes its own value
BucketMediumStrict(score) ==
    IF score >= HighCut THEN "high_relevance"
    ELSE IF score > MediumCut THEN "medium_relevance"
    ELSE "low_relevance"

\* the bucket a score falls in
Bucket(score) ==
    IF score >= HighCut THEN "high_relevance"
    ELSE IF score >= MediumCut THEN "medium_relevance"
    ELSE "low_relevance"

\* the entries appended to one bucket, in iteration order
BucketList(search_results, bucket) ==
    LET keys == SelectSeq(Keys(search_results),
                          LAMBDA k : Bucket(search_results[k].score) = bucket)
    IN  [i \in 1..Len(keys) |->
           [section |-> keys[i],
            score |-> search_results[keys[i]].score,
            snippet |-> Snippet(search_results[keys[i]].content)]]

\* the matches dict built from the search's result
Matches(found) ==
    [raised |-> found.raised, created |-> found.created,
     search_results |-> found.results,
     matches |-> IF found.raised THEN << >>
                 ELSE [b \in {"high_relevance", "medium_relevance",
                              "low_relevance"} |->
                         BucketList(found.results, b)]]

\* [raised, created, search_results, matches]
find_product_category_matches(product_category, company_data, fail) ==
    Matches(search_with_embeddings(product_category, company_data,
                                   CategoryThreshold, fail))

----------------------------------------------------------------------------
(* find_competitor_semantic_mentions *)

CompetitorThreshold == 60
MinSentence == 20

\* f"companies like {competitor_name} or similar to {competitor_name}"
CompetitorQuery(competitor_name) ==
    <<Lit("companies"), SP, Lit("like"), SP>> \o competitor_name
    \o <<SP, Lit("or"), SP, Lit("similar"), SP, Lit("to"), SP>>
    \o competitor_name

\* content.replace('\n', '. ')
RECURSIVE ReplaceBreaks(_)
ReplaceBreaks(s) ==
    IF s = << >> THEN << >>
    ELSE IF Len(s) = 1 THEN (IF s[1] = NL THEN <<DOT, SP>> ELSE s)
    ELSE ReplaceBreaks(SubSeq(s, 1, Len(s) \div 2))
         \o ReplaceBreaks(SubSeq(s, Len(s) \div 2 + 1, Len(s)))

\* str.lower() of one piece
LowerPiece(c) ==
    CASE c = "Unlike" -> "unlike"
      [] c = "LegacyCorp" -> "legacycorp"
      [] c = "COMPANY NAME" -> "company name"
      [] c = "COMPANY DESCRIPTION" -> "company description"
      [] c = "MAIN HEADINGS" -> "main headings"
      [] c = "ABOUT/MISSION" -> "about/mission"
      [] c = "LEADERSHIP INFORMATION" -> "leadership information"
      [] c = "JOB POSTINGS" -> "job postings"
      [] c = "(TECH STACK INDICATORS)" -> "(tech stack indicators)"
      [] c = "FINANCIAL INFORMATION" -> "financial information"
      [] c = "MAIN CONTENT" -> "main content"
      [] c = "Acme" -> "acme"
      [] c = "Corp" -> "corp"
      [] c = "Apex" -> "apex"
      [] OTHER -> c

\* str.lower()
Lower(s) == [i \in 1..Len(s) |-> <<LowerPiece(s[i][1]), s[i][2]>>]

\* comparison_phrases
ComparisonPhrases ==
    <<"alternative", "competitor", "similar", "compared", "versus", "vs",
      "unlike", "like", "better than">>

\* the one-word comparison phrases that are substrings of a lower-case piece
PhrasesInPiece(c) ==
    CASE c = "unlike" -> {"unlike", "like"}
      [] c = "canvas" -> {"vs"}
      [] c \in {"alternative", "competitor", "similar", "compared", "versus",
                "vs", "like"} -> {c}
      [] OTHER -> {}

\* phrase in s, for a lower-case s: a one-word phrase lies inside one piece,
\* "better than" spans three
PhraseIn(phrase, s) ==
    IF phrase = "better than"
    THEN MatchesAt(s, <<Lit("better"), SP, Lit("than")>>, 0)
         \/ \E p \in 1..Len(s) :
               MatchesAt(s, <<Lit("better"), SP, Lit("than")>>, p)
    ELSE \E i \in 1..Len(s) : phrase \in PhrasesInPiece(s[i][1])

\* mutant of SentenceMentions: one entry for every phrase the sentence holds
SentenceMentionsPerPhrase(section, score, sentence) ==
    IF Width(sentence) > MinSentence
    THEN LET held == SelectSeq(ComparisonPhrases,
                               LAMBDA phrase : PhraseIn(phrase, Lower(sentence)))
         IN  [i \in 1..Len(held) |->
                [section |-> section, score |-> score, context |-> sentence]]
    ELSE << >>

\* what one stripped sentence appends to semantic_mentions
SentenceMentions(section, score, sentence) ==
    IF /\ Width(sentence) > MinSentence
       /\ \E i \in 1..Len(ComparisonPhrases) :
             PhraseIn(ComparisonPhrases[i], Lower(sentence))
    THEN <<[section |-> section, score |-> score, context |-> sentence]>>
    ELSE << >>

\* the inner loop over the sentences of one result
RECURSIVE SentencesMentions(_, _, _)
SentencesMentions(section, score, sentences) ==
    IF sentences = << >> THEN << >>
    ELSE SentenceMentions(section, score, Strip(Head(sentences)))
         \o SentencesMentions(section, score, Tail(sentences))

\* the outer loop over search_results.items()
RECURSIVE SectionsMentions(_, _)
SectionsMentions(search_results, keys) ==
    IF keys = << >> THEN << >>
    ELSE SentencesMentions(Head(keys), search_results[Head(keys)].score,
                           Split(ReplaceBreaks(search_results[Head(keys)].content),
                                 DOT))
         \o SectionsMentions(search_results, Tail(keys))

\* semantic_mentions built from the search's result
Mentions(found) ==
    [raised |-> found.raised, created |-> found.created,
     search_results |-> found.results,
     semantic_mentions |->
        IF found.raised THEN << >>
        ELSE SectionsMentions(found.results, Keys(found.results))]

\* [raised, created, search_results, semantic_mentions]
find_competitor_semantic_mentions(competitor_name, company_data, fail) ==
    Mentions(search_with_embeddings(CompetitorQuery(competitor_name),
                                    company_data, CompetitorThreshold, fail))

----------------------------------------------------------------------------
(* Inputs *)

\* model instances one run may create
MaxLoads == 3

TitleText == <<<<"x", 5>>>>

\* <meta name="description">: absent, exactly 50 characters, 57 characters
MetaTexts ==
    {<< >>,
     <<<<"a", 1>>, <<"x", 49>>>>,
     <<<<"a", 3>>, <<"b", 4>>, <<"x", 50>>>>}

HeadingsText == <<<<"x", 4>>, NL>>

\* paragraphs of the about sections, each followed by a blank line: none,
\* one paragraph, a paragraph that quotes a marker, a very long paragraph
AboutTexts ==
    {<< >>,
     <<<<"b", 2>>, <<"x", 60>>, NL, NL>>,
     <<<<"c", 1>>, <<"x", 30>>, SP, Lit("FINANCIAL INFORMATION"), COLON, SP,
       <<"x", 30>>, NL, NL>>,
     <<<<"x", 5000>>, <<"a", 1>>, NL, NL>>}

LeadershipText == <<<<"a", 1>>, <<"c", 1>>, <<"x", 60>>>>

JobsText == <<<<"x", 10>>>>

FinancialText == <<<<"a", 3>>, <<"c", 4>>, <<"x", 55>>>>

\* the page text: a long sentence without a comparison phrase, a short
\* fragment, a sentence with two phrases, a fragment with a phrase, a
\* sentence of exactly 20 characters with a phrase, a sentence with a phrase
\* of two words, a sentence with a phrase inside a longer word
MainText ==
    <<<<"a", 4>>, <<"b", 3>>, <<"x", 60>>, DOT, SP, <<"x", 5>>, NL,
      Lit("Unlike"), SP, Lit("LegacyCorp"), Lit(","), SP, <<"x", 20>>, DOT, SP,
      Lit("vs"), SP, <<"x", 5>>, DOT, SP,
      Lit("like"), SP, <<"x", 15>>, NL,
      <<"x", 12>>, SP, Lit("better"), SP, Lit("than"), SP, <<"x", 5>>, DOT, SP,
      Lit("canvas"), SP, <<"x", 20>>, NL, NL>>

\* "Unlike LegacyCorp, we offer real-time sync", 42 characters
ScenarioSentence ==
    <<Lit("Unlike"), SP, Lit("LegacyCorp"), Lit(","), SP, <<"x", 23>>>>

\* an about section whose only paragraph is that sentence
ScenarioAbout == ScenarioSentence \o <<DOT, NL, NL>>

\* what scrape_website_content can return
Contents ==
    {CouldNotAccess,
     Blob(TitleText, <<<<"a", 3>>, <<"b", 4>>, <<"x", 50>>>>, HeadingsText,
          ScenarioAbout, LeadershipText, JobsText, FinancialText, MainText)}
    \cup {Blob(TitleText, m, HeadingsText, a, LeadershipText, JobsText,
                FinancialText, MainText) :
            m \in MetaTexts, a \in AboutTexts}

\* what find_press_releases can return: nothing, one short item (37
\* characters), one longer item
PressTexts ==
    {<< >>,
     <<<<"x", 10>>, COLON, NL, NL, <<"a", 2>>, <<"x", 20>>, NL, NL>>,
     <<<<"x", 10>>, COLON, NL, NL, <<"a", 2>>, <<"x", 70>>, NL, NL>>}

Queries == {<<<<"a", 1>>>>, <<<<"a", 1>>, <<"b", 1>>>>, <<<<"x", 3>>>>}

Thresholds == {0, 50, 60}

\* competitor names: the queries, and a name the backend has no signal for
CompetitorNames == Queries \cup {<<Lit("LegacyCorp")>>}

\* failures of an operation that makes two backend calls
TwoCallFails == {f \in Fails : f.step <= 2 /\ f.msg = NoFail.msg}

----------------------------------------------------------------------------
(* The process: one analysis, then any number of searches *)

NoProfile == [url |-> << >>]

HasProfile == profile # NoProfile

Init ==
    /\ profile = NoProfile
    /\ call = [op |-> "none"]
    /\ loads = 0

ScrapeCompanyData(content, press_content, fail, fail2) ==
    /\ ~HasProfile
    /\ \E r \in {scrape_company_data(content, press_content, fail, fail2)} :
          /\ loads + r.created <= MaxLoads
          /\ profile' = r.data
          /\ call' = [op |-> "scrape_company_data", fail |-> fail,
                      fail2 |-> fail2, created |-> r.created,
                      single |-> r.single, raised |-> r.raised,
                      backend_raised |-> r.backend_raised]
          /\ loads' = loads + r.created

\* mutant of SearchWithEmbeddings: the query's embedding is kept in the
\* profile
SearchWithEmbeddingsCaching(query, threshold, fail) ==
    /\ HasProfile
    /\ loads < MaxLoads
    /\ \E r \in {search_with_embeddings(query, profile, threshold, fail)} :
          /\ call' = [op |-> "search_with_embeddings", query |-> query,
                      threshold |-> threshold, fail |-> fail,
                      raised |-> r.raised, results |-> r.results]
          /\ loads' = loads + (IF r.created THEN 1 ELSE 0)
    /\ profile' = [profile EXCEPT !.embedding = List(Encode(query))]

SearchWithEmbeddings(query, threshold, fail) ==
    /\ HasProfile
    /\ loads < MaxLoads
    /\ \E r \in {search_with_embeddings(query, profile, threshold, fail)} :
          /\ call' = [op |-> "search_with_embeddings", query |-> query,
                      threshold |-> threshold, fail |-> fail,
                      raised |-> r.raised, results |-> r.results]
          /\ loads' = loads + (IF r.created THEN 1 ELSE 0)
    /\ UNCHANGED profile

FindProductCategoryMatches(product_category, fail) ==
    /\ HasProfile
    /\ loads < MaxLoads
    /\ \E r \in {find_product_category_matches(product_category, profile, fail)} :
          /\ call' = [op |-> "find_product_category_matches",
                      product_category |-> product_category, fail |-> fail,
                      raised |-> r.raised,
                      search_results |-> r.search_results,
                      matches |-> r.matches]
          /\ loads' = loads + (IF r.created THEN 1 ELSE 0)
    /\ UNCHANGED profile

FindCompetitorSemanticMentions(competitor_name, fail) ==
    /\ HasProfile
    /\ loads < MaxLoads
    /\ \E r \in {find_competitor_semantic_mentions(competitor_name, profile, fail)} :
          /\ call' = [op |-> "find_competitor_semantic_mentions",
                      competitor_name |-> competitor_name, fail |-> fail,
                      raised |-> r.raised,
                      search_results |-> r.search_results,
                      semantic_mentions |-> r.semantic_mentions]
          /\ loads' = loads + (IF r.created THEN 1 ELSE 0)
    /\ UNCHANGED profile

Next ==
    \/ \E content \in Contents, press_content \in PressTexts,
          fail \in Fails, fail2 \in TwoCallFails :
          ScrapeCompanyData(content, press_content, fail, fail2)
    \/ \E query \in Queries, threshold \in Thresholds, fail \in TwoCallFails :
          SearchWithEmbeddings(query, threshold, fail)
    \/ \E product_category \in Queries, fail \in TwoCallFails :
          FindProductCategoryMatches(product_category, fail)
    \/ \E competitor_name \in CompetitorNames, fail \in TwoCallFails :
          FindCompetitorSemanticMentions(competitor_name, fail)

Spec == Init /\ [][Next]_vars

----------------------------------------------------------------------------
(* calculate_similarity on its own: every pair of inputs, then the call *)

SimInputs ==
    {None, List(<< >>), Str("model unavailable")}
    \cup {List(<<x, y, z>>) : x \in {-1, 0, 1}, y \in {-1, 0, 1}, z \in {-1, 0, 1}}

InitSim ==
    /\ profile = NoProfile
    /\ loads = 0
    /\ call \in [op : {"input"}, embedding1 : SimInputs, embedding2 : SimInputs]

CalculateSimilarity ==
    LET r == calculate_similarity(call.embedding1, call.embedding2)
    IN  /\ call.op = "input"
        /\ call' = [op |-> "calculate_similarity",
                    embedding1 |-> call.embedding1,
                    embedding2 |-> call.embedding2,
                    raised |-> r.raised, value |-> r.value]
        /\ UNCHANGED <<profile, loads>>

NextSim == CalculateSimilarity

SpecSim == InitSim /\ [][NextSim]_vars

----------------------------------------------------------------------------
(* extract_section on its own: every text and marker, then the call *)

\* pages whose meta description has a line break, and whose title quotes a
\* marker
OddBlobs ==
    {Blob(TitleText, <<<<"a", 2>>, NL, <<"b", 2>>>>, HeadingsText, << >>,
          LeadershipText, JobsText, FinancialText, MainText),
     Blob(<<<<"x", 5>>, SP>> \o CompanyDescription \o <<SP, <<"x", 3>>>>,
          <<<<"a", 1>>, <<"x", 49>>>>, HeadingsText, << >>,
          LeadershipText, JobsText, FinancialText, MainText)}

\* texts a caller can pass: what the collector returns, and texts that are
\* empty, end on the marker line, repeat the section's own marker, list the
\* markers out of order or hold nothing but white space under a marker
ExtractTexts ==
    Contents \cup OddBlobs
    \cup {<< >>,
          MainContent \o <<SP, <<"x", 5>>>>,
          AboutMission \o <<NL, <<"a", 2>>, SP>> \o AboutMission
              \o <<SP, <<"b", 2>>, NL>> \o MainContent \o <<NL, <<"c", 2>>>>,
          MainContent \o <<NL, <<"a", 3>>, NL>> \o CompanyName
              \o <<SP, <<"x", 5>>, NL>> \o AboutMission \o <<NL, <<"b", 1>>>>,
          <<<<"x", 4>>, SP>> \o LeadershipInformation \o <<SP, <<"x", 2>>, NL,
              SP, NL>> \o JobPostings \o <<NL, <<"x", 3>>, NL>>}

\* the markers of the list, a marker that is not in the list, no marker
ExtractMarkers ==
    {Markers[k] : k \in 1..Len(Markers)}
    \cup {<<Lit("JOB POSTINGS"), SP, Lit("(TECH STACK INDICATORS)"), COLON>>,
          << >>}

InitExtract ==
    /\ profile = NoProfile
    /\ loads = 0
    /\ call \in [op : {"input"}, text : ExtractTexts,
                 section_marker : ExtractMarkers]

ExtractSection ==
    /\ call.op = "input"
    /\ call' = [op |-> "extract_section", text |-> call.text,
                section_marker |-> call.section_marker,
                result |-> extract_section(call.text, call.section_marker)]
    /\ UNCHANGED <<profile, loads>>

\* an unrelated call between two calls with the same arguments
ExtractOther(text, section_marker) ==
    /\ call.op = "extract_section"
    /\ call' = [op |-> "extract_other", text |-> call.text,
                section_marker |-> call.section_marker,
                result |-> call.result,
                other_text |-> text,
                other_result |-> extract_section(text, section_marker)]
    /\ UNCHANGED <<profile, loads>>

\* mutant of ExtractSectionAgain: the text of the last call is kept and read
\* instead of the argument
ExtractSectionAgainStateful ==
    /\ call.op \in {"extract_section", "extract_other"}
    /\ call' = [op |-> "extract_section_again", text |-> call.text,
                section_marker |-> call.section_marker,
                result |-> call.result,
                again |-> extract_section(IF call.op = "extract_other"
                                          THEN call.other_text ELSE call.text,
                                          call.section_marker)]
    /\ UNCHANGED <<profile, loads>>

\* the second call with the arguments of the first
ExtractSectionAgain ==
    /\ call.op \in {"extract_section", "extract_other"}
    /\ call' = [op |-> "extract_section_again", text |-> call.text,
                section_marker |-> call.section_marker,
                result |-> call.result,
                again |-> extract_section(call.text, call.section_marker)]
    /\ UNCHANGED <<profile, loads>>

NextExtract ==
    \/ ExtractSection
    \/ \E text \in {CouldNotAccess, MainContent \o <<SP, <<"x", 5>>>>} :
          ExtractOther(text, MainContent)
    \/ ExtractSectionAgain

SpecExtract == InitExtract /\ [][NextExtract]_vars

----------------------------------------------------------------------------
(* json.loads, as far as generate_insights depends on it.  A text is a str
   as above; the pieces of a JSON text are the quote, the brackets, the
   colon, the comma and words. *)


\* Python values json.loads adds to List, Str and None
Dict(d) == [kind |-> "dict", d |-> d]
Num(n) == [kind |-> "num", n |-> n]
Bool(b) == [kind |-> "bool", b |-> b]

\* d[key] = value
Put(d, key, value) ==
    [k \in DOMAIN d \cup {key} |-> IF k = key THEN value ELSE d[k]]

\* the outcome of scanning one value: the value and the text after it
ParseFail == [ok |-> FALSE, value |-> None, rest |-> << >>]

ParseDone(value, rest) == [ok |-> TRUE, value |-> value, rest |-> rest]

RECURSIVE ParseValue(_), ParseItems(_, _), ParseMembers(_, _)

\* a string literal: from the opening quote s starts with to the next quote;
\* a line break inside it is a control character json rejects
ParseString(s) ==
    IF s = << >> \/ Head(s) # Lit("\"") \/ Find(s, <<Lit("\"")>>, 1) = -1
       \/ Find(Slice(s, 1, Find(s, <<Lit("\"")>>, 1)), <<NL>>, 0) # -1
    THEN ParseFail
    ELSE ParseDone(Str(Slice(s, 1, Find(s, <<Lit("\"")>>, 1))),
                   Slice(s, Find(s, <<Lit("\"")>>, 1) + 1, Len(s)))

\* after an item r of an array: a comma and more items, or the end
AfterItem(r, t, acc) ==
    IF ~r.ok \/ t = << >> THEN ParseFail
    ELSE IF Head(t) = Lit(",") THEN ParseItems(Tail(t), Append(acc, r.value))
    ELSE IF Head(t) = Lit("]")
    THEN ParseDone(List(Append(acc, r.value)), Tail(t))
    ELSE ParseFail

\* after a member key: r of an object: a comma and more members, or the end
AfterMember(key, r, t, acc) ==
    IF ~r.ok \/ t = << >> THEN ParseFail
    ELSE IF Head(t) = Lit(",")
    THEN ParseMembers(Tail(t), Put(acc, key, r.value))
    ELSE IF Head(t) = Lit("}")
    THEN ParseDone(Dict(Put(acc, key, r.value)), Tail(t))
    ELSE ParseFail

\* after the key k of a member: a colon and the member's value
AfterKey(k, t, acc) ==
    IF ~k.ok \/ t = << >> \/ Head(t) # COLON THEN ParseFail
    ELSE AfterMember(k.value.s, ParseValue(Tail(t)),
                     LStrip(ParseValue(Tail(t)).rest), acc)

ParseItems(s, acc) == AfterItem(ParseValue(s), LStrip(ParseValue(s).rest), acc)

ParseMembers(s, acc) ==
    AfterKey(ParseString(LStrip(s)), LStrip(ParseString(LStrip(s)).rest), acc)

\* the first piece that follows the opening bracket s starts with
Inside(s) == IF LStrip(Tail(s)) = << >> THEN << >> ELSE Head(LStrip(Tail(s)))

ParseValue(s) ==
    IF LStrip(s) = << >> THEN ParseFail
    ELSE CASE Head(LStrip(s)) = Lit("\"") -> ParseString(LStrip(s))
           [] Head(LStrip(s)) = Lit("[") ->
                IF Inside(LStrip(s)) = Lit("]")
                THEN ParseDone(List(<< >>), Tail(LStrip(Tail(LStrip(s)))))
                ELSE ParseItems(Tail(LStrip(s)), << >>)
           [] Head(LStrip(s)) = Lit("{") ->
                IF Inside(LStrip(s)) = Lit("}")
                THEN ParseDone(Dict(<< >>), Tail(LStrip(Tail(LStrip(s)))))
                ELSE ParseMembers(Tail(LStrip(s)), << >>)
           [] Head(LStrip(s)) = Lit("null") -> ParseDone(None, Tail(LStrip(s)))
           [] Head(LStrip(s)) \in {Lit("true"), Lit("false")} ->
                ParseDone(Bool(Head(LStrip(s)) = Lit("true")), Tail(LStrip(s)))
           [] Head(LStrip(s)) = Lit("5") -> ParseDone(Num(5), Tail(LStrip(s)))
           [] OTHER -> ParseFail

\* json.loads(s): [ok, value]; not ok is JSONDecodeError, raised also for
\* text that follows the value
JsonLoads(s) ==
    IF ParseValue(s).ok /\ LStrip(ParseValue(s).rest) = << >>
    THEN [ok |-> TRUE, value |-> ParseValue(s).value]
    ELSE [ok |-> FALSE, value |-> None]

----------------------------------------------------------------------------
(* generate_insights *)

PromptContentLimit == 3000
PromptPressLimit == 1000

\* a dict key or a one-piece text
Key(c) == <<Lit(c)>>

\* required_keys
RequiredKeys ==
    <<Key("company_strategy"), Key("leadership_information"),
      Key("product_strategy_summary"), Key("article_links")>>

NotFound == Key("Information not found in company data.")

\* what the prompt takes from data: data.get('company_data', {}) and the
\* slices of its content and press content
Prompt(data) ==
    IF "company_data" \in DOMAIN data
    THEN [company_url |-> data.company_data.url,
          company_content |-> Take(data.company_data.content, PromptContentLimit),
          press_content |-> Take(data.company_data.press_content, PromptPressLimit)]
    ELSE [company_url |-> Key("Unknown"), company_content |-> << >>,
          press_content |-> << >>]

\* f"{source}" of a parsed value: a str is its text; anything else is shown
\* by its repr, which is not spelled out
SourceText(source) ==
    CASE source.kind = "str" -> source.s
      [] source.kind = "list" -> Key("[...]")
      [] source.kind = "dict" -> Key("{...}")
      [] OTHER -> Key("<scalar>")

\* for source in sources: formatted_links += f"- {source}\n"
RECURSIVE SourceLines(_)
SourceLines(sources) ==
    IF sources = << >> THEN << >>
    ELSE <<Lit("- ")>> \o SourceText(Head(sources)) \o <<NL>>
         \o SourceLines(Tail(sources))

\* one block of formatted_links: nothing when the key is missing
LinksBlock(links, key, heading) ==
    IF key \notin DOMAIN links THEN << >>
    ELSE heading
         \o (IF links[key].kind = "list" THEN SourceLines(links[key].v)
             ELSE <<Lit("- ")>> \o SourceText(links[key]) \o <<NL>>)

\* formatted_links for an article_links that is a dict
FormatLinks(links) ==
    <<Lit("### Article Sources:"), NL, NL>>
    \o LinksBlock(links, Key("company_strategy"),
                  <<Lit("**Company Strategy Sources:**"), NL>>)
    \o LinksBlock(links, Key("leadership"),
                  <<NL, Lit("**Leadership Sources:**"), NL>>)
    \o LinksBlock(links, Key("technology"),
                  <<NL, Lit("**Technology & Strategy Sources:**"), NL>>)

\* insights with the missing required keys filled in
Filled(insights) ==
    [k \in DOMAIN insights \cup {RequiredKeys[i] : i \in 1..Len(RequiredKeys)} |->
        IF k \in DOMAIN insights THEN insights[k] ELSE Str(NotFound)]

\* the dict returned for a response that parsed to the dict insights
FromObject(insights, raw_content) ==
    Dict([k \in DOMAIN Filled(insights) \cup {Key("raw_response")} |->
            IF k = Key("raw_response") THEN Str(raw_content)
            ELSE IF k = Key("article_links") /\ Filled(insights)[k].kind = "dict"
            THEN Str(FormatLinks(Filled(insights)[k].d))
            ELSE Filled(insights)[k]])

\* the dict of the outer except clause
ErrorResult(msg) ==
    Dict((Key("company_strategy")
            :> Str(Key("Error generating company strategy insights: ") \o msg))
         @@ (Key("leadership_information")
            :> Str(Key("Error generating leadership information.")))
         @@ (Key("product_strategy_summary")
            :> Str(Key("Error generating product strategy summary.")))
         @@ (Key("article_links")
            :> Str(Key("Error generating article links.")))
         @@ (Key("raw_response") :> Str(Key("Exception occurred: ") \o msg)))

\* str.upper() of one piece
UpperPiece(c) ==
    CASE c \in {"Company Strategy", "company strategy"} -> "COMPANY STRATEGY"
      [] c \in {"Leadership Information", "leadership information"} ->
           "LEADERSHIP INFORMATION"
      [] c \in {"Product/Strategy Summary", "product/strategy summary"} ->
           "PRODUCT/STRATEGY SUMMARY"
      [] c \in {"Article Links", "article links"} -> "ARTICLE LINKS"
      [] c = "company_strategy" -> "COMPANY_STRATEGY"
      [] c = "leadership_information" -> "LEADERSHIP_INFORMATION"
      [] c = "product_strategy_summary" -> "PRODUCT_STRATEGY_SUMMARY"
      [] c = "article_links" -> "ARTICLE_LINKS"
      [] c = "foo" -> "FOO"
      [] OTHER -> c

\* c in line, for a word c
HoldsPiece(line, c) == \E i \in 1..Len(line) : line[i][1] = c

\* c in line.upper()
HoldsUpper(line, c) == \E i \in 1..Len(line) : UpperPiece(line[i][1]) = c

\* the section a stripped line opens, << >> when it opens none
SectionOfLine(line) ==
    IF HoldsUpper(line, "COMPANY STRATEGY") \/ HoldsPiece(line, "company_strategy")
    THEN Key("company_strategy")
    ELSE IF HoldsUpper(line, "LEADERSHIP INFORMATION")
            \/ HoldsPiece(line, "leadership_information")
    THEN Key("leadership_information")
    ELSE IF HoldsUpper(line, "PRODUCT/STRATEGY SUMMARY")
            \/ HoldsPiece(line, "product_strategy_summary")
    THEN Key("product_strategy_summary")
    ELSE IF HoldsUpper(line, "ARTICLE LINKS") \/ HoldsPiece(line, "article_links")
    THEN Key("article_links")
    ELSE << >>

\* "Remove common JSON formatting characters"
CleanLine(line) ==
    SelectSeq(line, LAMBDA t : t \notin {Lit("\""), Lit(","), Lit("{"), Lit("}")})

\* the loop over the lines of the raw text; current_section is << >> for None
RECURSIVE ScanLines(_, _, _)
ScanLines(lines, current_section, sections) ==
    IF lines = << >> THEN sections
    ELSE IF SectionOfLine(Strip(Head(lines))) # << >>
    THEN ScanLines(Tail(lines), SectionOfLine(Strip(Head(lines))),
                   Put(sections, SectionOfLine(Strip(Head(lines))), << >>))
    ELSE IF current_section # << >> /\ Strip(Head(lines)) # << >>
    THEN ScanLines(Tail(lines), current_section,
                   Put(sections, current_section,
                       sections[current_section]
                       \o CleanLine(Strip(Head(lines))) \o <<NL>>))
    ELSE ScanLines(Tail(lines), current_section, sections)

\* sections with the required keys ensured and the raw response added
Ensured(sections, raw_content) ==
    Dict([k \in DOMAIN sections \cup {RequiredKeys[i] : i \in 1..Len(RequiredKeys)} \cup {Key("raw_response")} |->
            IF k = Key("raw_response") THEN Str(raw_content)
            ELSE IF k \notin DOMAIN sections \/ Strip(sections[k]) = << >>
            THEN Str(NotFound)
            ELSE Str(sections[k])])

\* the dict the except json.JSONDecodeError block is written to return
FallbackResponse(raw_content) ==
    Ensured(ScanLines(Split(raw_content, NL), << >>, << >>), raw_content)

\* the exception the block after json.loads raises for a value that is not
\* a dict: the membership test or the item assignment fails
NotAnObject(insights) ==
    CASE insights.kind = "list" ->
           Key("list indices must be integers or slices, not str")
      [] insights.kind = "str" ->
           IF \A i \in 1..Len(RequiredKeys) :
                 HoldsPiece(insights.s, RequiredKeys[i][1][1])
           THEN Key("string indices must be integers, not 'str'")
           ELSE Key("'str' object does not support item assignment")
      [] insights.kind = "num" -> Key("argument of type 'int' is not iterable")
      [] insights.kind = "bool" -> Key("argument of type 'bool' is not iterable")
      [] OTHER -> Key("argument of type 'NoneType' is not iterable")

\* the except json.JSONDecodeError block as it runs: required_keys is
\* assigned only after json.loads has returned, so the loop that ensures the
\* keys raises UnboundLocalError (the message is that of Python 3.11 and
\* later), and the outer except clause answers
AfterDecodeError(raw_content) ==
    ErrorResult(Key("cannot access local variable 'required_keys' where it is not associated with a value"))

\* mutant of Parsed: only a response that is no JSON at all is answered by
\* the except clauses
ParsedUnguarded(loaded, raw_content) ==
    IF ~loaded.ok
    THEN [raised |-> FALSE, value |-> AfterDecodeError(raw_content)]
    ELSE IF loaded.value.kind = "dict"
    THEN [raised |-> FALSE, value |-> FromObject(loaded.value.d, raw_content)]
    ELSE [raised |-> TRUE, value |-> None]

\* what follows json.loads(raw_content), given its outcome
Parsed(loaded, raw_content) ==
    IF ~loaded.ok
    THEN [raised |-> FALSE, value |-> AfterDecodeError(raw_content)]
    ELSE IF loaded.value.kind = "dict"
    THEN [raised |-> FALSE, value |-> FromObject(loaded.value.d, raw_content)]
    ELSE [raised |-> FALSE, value |-> ErrorResult(NotAnObject(loaded.value))]

\* generate_insights(data), given what the chat completion does: it raises
\* with a message, or returns a message whose content is None or a text.
\* [raised, value]
generate_insights(data, outcome) ==
    IF outcome.raises
    THEN [raised |-> FALSE, value |-> ErrorResult(outcome.msg)]
    ELSE IF outcome.content = None
    THEN [raised |-> FALSE,
          value |-> ErrorResult(Key("the JSON object must be str, bytes or bytearray, not NoneType"))]
    ELSE Parsed(JsonLoads(outcome.content.s), outcome.content.s)

----------------------------------------------------------------------------
(* generate_insights on its own: every input and every outcome of the chat
   completion, then the call *)

\* the JSON text of a string
Quoted(c) == <<Lit("\""), Lit(c), Lit("\"")>>

\* the JSON text of an object with the given member texts
ObjectText(members) ==
    <<Lit("{"), NL>> \o Join(members, <<Lit(","), NL>>) \o <<NL, Lit("}")>>

\* the JSON text of a member
MemberText(key, value_text) == <<Lit("\"")>> \o key \o <<Lit("\""), COLON, SP>> \o value_text

\* article_links as the prompt asks for it (a string) and as a dict of
\* sources by category
LinkTexts ==
    {Quoted("u1"),
     ObjectText(<<MemberText(Key("company_strategy"),
                             <<Lit("[")>> \o Quoted("u1") \o <<Lit(","), SP>>
                             \o Quoted("u2") \o <<Lit("]")>>),
                  MemberText(Key("technology"), Quoted("u3"))>>),
     ObjectText(<<MemberText(Key("leadership"), Quoted("u2")),
                  MemberText(Key("other"), <<Lit("null")>>)>>)}

\* a JSON object with the required keys of present, in order
ResponseObject(present, links) ==
    ObjectText([i \in 1..Len(SelectSeq(RequiredKeys, LAMBDA k : k \in present)) |->
                  MemberText(SelectSeq(RequiredKeys, LAMBDA k : k \in present)[i],
                             IF SelectSeq(RequiredKeys, LAMBDA k : k \in present)[i]
                                  = Key("article_links")
                             THEN links ELSE Quoted("foo"))])

\* valid JSON that is not an object
ScalarTexts ==
    {<<Lit("null")>>, <<Lit("5")>>, <<Lit("true")>>, Quoted("foo"),
     <<Lit("\""), Lit("company_strategy"), SP, Lit("leadership_information"), SP,
       Lit("product_strategy_summary"), SP, Lit("article_links"), Lit("\"")>>,
     <<Lit("[")>> \o Quoted("foo") \o <<Lit(","), SP, Lit("5"), Lit("]")>>,
     <<Lit("["), Lit("]")>>}

\* text that is not JSON: headed sections, a JSON object cut off in a
\* string, an object followed by a remark, prose, nothing
PlainTexts ==
    {<<Lit("COMPANY STRATEGY"), COLON, NL, Lit("foo"), Lit(","), SP, Lit("bar"),
       NL, NL, Lit("Leadership Information"), COLON, NL, SP, NL,
       Lit("ARTICLE LINKS"), NL, SP, Lit("\""), Lit("u1"), Lit("\""), NL>>,
     <<Lit("{"), NL>> \o MemberText(Key("company_strategy"), Quoted("foo"))
       \o <<Lit(","), NL, Lit("\""), Lit("leadership_information"), Lit("\""), COLON, SP,
            Lit("\""), Lit("bar")>>,
     ResponseObject({RequiredKeys[i] : i \in 1..Len(RequiredKeys)}, Quoted("u1")) \o <<NL, Lit("foo")>>,
     <<Lit("foo"), SP, Lit("bar"), DOT>>,
     << >>}

\* what the chat completion can do
LLMOutcomes ==
    {[raises |-> TRUE, msg |-> Key("Connection error."), content |-> None],
     [raises |-> FALSE, msg |-> << >>, content |-> None]}
    \cup {[raises |-> FALSE, msg |-> << >>, content |-> Str(t)] :
            t \in {ResponseObject(present, links) :
                      present \in SUBSET {RequiredKeys[i] : i \in 1..Len(RequiredKeys)}, links \in LinkTexts}
                  \cup ScalarTexts \cup PlainTexts}

\* the data main.py passes: the form's fields, with the profile of a page
\* that could not be read, the profile of a page, or no profile
InsightsData ==
    {[product_name |-> Key("foo")]}
    \cup {[product_name |-> Key("foo"),
           company_data |-> scrape_company_data(content, << >>, NoFail, NoFail).data] :
            content \in {CouldNotAccess,
                         Blob(TitleText, << >>, HeadingsText, << >>,
                              LeadershipText, JobsText, FinancialText, MainText)}}

InitInsights ==
    /\ profile = NoProfile
    /\ loads = 0
    /\ call \in [op : {"input"}, data : InsightsData, outcome : LLMOutcomes]

GenerateInsights ==
    /\ call.op = "input"
    /\ \E r \in {generate_insights(call.data, call.outcome)} :
          call' = [op |-> "generate_insights", data |-> call.data,
                   outcome |-> call.outcome, prompt |-> Prompt(call.data),
                   raised |-> r.raised, result |-> r.value]
    /\ UNCHANGED <<profile, loads>>

NextInsights == GenerateInsights

SpecInsights == InitInsights /\ [][NextInsights]_vars

----------------------------------------------------------------------------
(* find_all_competitor_mentions, one iteration of its scan loop at a time *)

MaxMentions == 7

ContextChars == 100

\* s[k:] in characters; a run of letters is cut where k falls
Drop(s, k) ==
    IF k <= 0 THEN s
    ELSE IF Whole(s, k) = Len(s) THEN << >>
    ELSE IF Width(SubSeq(s, 1, Whole(s, k))) = k
    THEN SubSeq(s, Whole(s, k) + 1, Len(s))
    ELSE <<<<IF IsLetter(s[Whole(s, k) + 1][1])
             THEN s[Whole(s, k) + 1][1] ELSE "x",
             Width(SubSeq(s, 1, Whole(s, k) + 1)) - k>>>>
         \o SubSeq(s, Whole(s, k) + 2, Len(s))

\* re.sub(r'\s*\(.*?\)', '', s): every bracketed part, with the white space
\* before it, is removed, leftmost first and up to the nearest ")"
RECURSIVE RemoveParenthetical(_)
RemoveParenthetical(s) ==
    IF Find(s, <<Lit("(")>>, 0) = -1
       \/ Find(s, <<Lit(")")>>, Find(s, <<Lit("(")>>, 0) + 1) = -1
    THEN s
    ELSE RStrip(SubSeq(s, 1, Find(s, <<Lit("(")>>, 0)))
         \o RemoveParenthetical(
              SubSeq(s, Find(s, <<Lit(")")>>, Find(s, <<Lit("(")>>, 0) + 1) + 2,
                     Len(s)))

\* s.replace(piece, '')
Without(s, c) == SelectSeq(s, LAMBDA t : t[1] # c)

\* name_variants
NameVariants(competitor_name) ==
    <<Lower(Strip(RemoveParenthetical(competitor_name))),
      Without(Lower(Strip(RemoveParenthetical(competitor_name))), " "),
      Without(Lower(Strip(RemoveParenthetical(competitor_name))), ".com")>>

\* s.find(variant, start_pos) in characters: names and their mentions are
\* whole pieces, so a match starts where a piece starts; '' is found at
\* start_pos itself
FindChars(s, variant, start_pos) ==
    IF variant = << >>
    THEN (IF start_pos <= Width(s) THEN start_pos ELSE -1)
    ELSE IF {p \in 0..(Len(s) - Len(variant)) :
                /\ Width(SubSeq(s, 1, p)) >= start_pos
                /\ MatchesAt(s, variant, p)} = {}
    THEN -1
    ELSE Width(SubSeq(s, 1,
           CHOOSE p \in 0..(Len(s) - Len(variant)) :
              /\ Width(SubSeq(s, 1, p)) >= start_pos
              /\ MatchesAt(s, variant, p)
              /\ \A q \in 0..(p - 1) :
                    ~(Width(SubSeq(s, 1, q)) >= start_pos
                      /\ MatchesAt(s, variant, q))))

\* the offsets of s that survive re.sub(r'\s+', ' ', s): everything but
\* white space that follows white space
Survivors(s) == {i \in 1..Len(s) : IsSpace(s[i][1]) => (i = 1 \/ ~IsSpace(s[i - 1][1]))}

\* line breaks to spaces, runs of white space to one space, strip()
CleanContext(s) ==
    Strip([n \in 1..Cardinality(Survivors(s)) |->
            IF IsSpace(s[CHOOSE i \in Survivors(s) :
                           Cardinality({j \in Survivors(s) : j < i}) = n - 1][1])
            THEN SP
            ELSE s[CHOOSE i \in Survivors(s) :
                     Cardinality({j \in Survivors(s) : j < i}) = n - 1]])

\* the context of the mention of variant at index
ContextAt(company_content, variant, index) ==
    CleanContext(
        Drop(Take(company_content,
                  IF index + Width(variant) + ContextChars < Width(company_content)
                  THEN index + Width(variant) + ContextChars
                  ELSE Width(company_content)),
             IF index - ContextChars > 0 THEN index - ContextChars ELSE 0))

\* is_duplicate: the stored contexts, which carry the "..." around them,
\* compared with the new context, which does not
IsDuplicate(mentions, context) ==
    \E i \in 1..Len(mentions) : mentions[i].context = context

\* the target company's pages: nothing, two mentions far apart, the forms
\* of a two-word name, and two mentions close together
MentionContents ==
    {<< >>,
     <<<<"x", 120>>, SP, Lit("Acme"), SP, <<"x", 150>>, NL, NL, Lit("acme"),
       Lit(".com"), SP, <<"x", 120>>>>,
     <<<<"x", 30>>, SP, Lit("Acme"), SP, Lit("Corp"), SP, <<"x", 250>>, SP,
       Lit("Acme"), Lit("Corp"), NL, <<"x", 30>>>>,
     <<Lit("Acme"), SP, <<"x", 5>>, SP, Lit("Acme")>>}

\* the names extract_company_name can return
MentionNames ==
    {<<Lit("Acme")>>,
     <<Lit("Acme"), SP, Lit("Corp")>>,
     <<Lit("Acme"), Lit(".com")>>,
     <<Lit("Acme"), SP, Lit("("), Lit("Apex"), Lit(")")>>,
     <<Lit("("), Lit("Acme"), Lit(")")>>,
     <<Lit(".com")>>,
     <<Lit("Apex")>>,
     << >>}

InitMentions ==
    /\ profile = NoProfile
    /\ loads = 0
    /\ call \in [op : {"input"}, company_content : MentionContents,
                 competitor_name : MentionNames]

\* lines 184-203: the variants are built and the first scan starts
StartScan ==
    /\ call.op = "input"
    /\ call' = [op |-> "scan", company_content |-> call.company_content,
                competitor_name |-> call.competitor_name,
                name_variants |-> NameVariants(call.competitor_name),
                variant |-> 1, start_pos |-> 0, mentions |-> << >>]
    /\ UNCHANGED <<profile, loads>>

\* one pass of the while loop that finds the variant
ScanFound ==
    /\ call.op = "scan"
    /\ Len(call.mentions) < MaxMentions
    /\ \E index \in {FindChars(Lower(call.company_content),
                               call.name_variants[call.variant], call.start_pos)} :
        /\ index # -1
        /\ \E context \in {ContextAt(call.company_content,
                                     call.name_variants[call.variant], index)} :
              call' = [call EXCEPT
                 !.mentions =
                     IF IsDuplicate(call.mentions, context) THEN @
                     ELSE Append(@, [variant |-> call.name_variants[call.variant],
                                     context |-> <<Lit("...")>> \o context
                                                 \o <<Lit("...")>>]),
                 !.start_pos = index + Width(call.name_variants[call.variant])]
    /\ UNCHANGED <<profile, loads>>

\* the pass that does not find it: break, and the next variant or the return
ScanBreak ==
    /\ call.op = "scan"
    /\ FindChars(Lower(call.company_content),
                 call.name_variants[call.variant], call.start_pos) = -1
    /\ call' = IF call.variant < Len(call.name_variants)
               THEN [call EXCEPT !.variant = @ + 1, !.start_pos = 0]
               ELSE [call EXCEPT !.op = "find_all_competitor_mentions"]
    /\ UNCHANGED <<profile, loads>>

NextMentions == StartScan \/ ScanFound \/ ScanBreak

SpecMentions == InitMentions /\ [][NextMentions]_vars



Searched == call.op = "search_with_embeddings" /\ ~call.raised

Matched == call.op = "find_product_category_matches" /\ ~call.raised

\* the similarity of the last query to the vector stored under k
QuerySimilarity(k) ==
    calculate_similarity(List(Encode(call.query)), profile.embeddings[k]).value

\* C1: when a search returns, a key of the profile's embeddings is in the
\* result exactly if its similarity to the query is at least the threshold,
\* the stored score is that similarity, and nothing else is in the result
\* (so the result is empty when nothing reaches the threshold).
SearchFiltersByThreshold ==
    Searched =>
        /\ DOMAIN call.results \subseteq DOMAIN profile.embeddings
        /\ \A k \in DOMAIN profile.embeddings :
              /\ k \in DOMAIN call.results <=> QuerySimilarity(k) >= call.threshold
              /\ k \in DOMAIN call.results =>
                    call.results[k].score = QuerySimilarity(k)

SearchFiltersWitness ==
    /\ Searched
    /\ call.threshold > 0
    /\ DOMAIN call.results # {}
    /\ DOMAIN call.results # DOMAIN profile.embeddings

\* the keys the same query finds in the same profile at threshold t
KeysAt(t) ==
    DOMAIN search_with_embeddings(call.query, profile, t, NoFail).results

\* C2: for the query and profile of a returned search, every higher
\* threshold yields a subset of the keys: raising the threshold never adds
\* a result.
ThresholdMonotonic ==
    Searched =>
        \A t2 \in Thresholds :
            call.threshold <= t2 => KeysAt(t2) \subseteq DOMAIN call.results

ThresholdMonotonicWitness ==
    /\ Searched
    /\ \E t2 \in Thresholds :
          /\ call.threshold < t2
          /\ KeysAt(t2) # {}
          /\ KeysAt(t2) # DOMAIN call.results

\* every entry of the three relevance lists of the last category match
AllMatches ==
    call.matches.high_relevance \o call.matches.medium_relevance
    \o call.matches.low_relevance

\* C3: every key of a search result and every section field of a category
\* match is one of the seven enumerated section names.
ClosedSectionSet ==
    /\ Searched => DOMAIN call.results \subseteq SectionNames
    /\ Matched =>
          \A i \in 1..Len(AllMatches) : AllMatches[i].section \in SectionNames

\* C4: the three lists of a category match partition the result of the
\* search at threshold 0.4: each of its entries is in exactly one list, no
\* other entry is in a list, and the list is high from 0.65, medium from 0.5
\* to below 0.65, low from 0.4 to below 0.5.
BucketPartition ==
    Matched =>
        LET found == search_with_embeddings(call.product_category, profile,
                                            40, NoFail).results
            m == call.matches
        IN  /\ \A k \in DOMAIN found :
                  Cardinality({i \in 1..Len(AllMatches) :
                                  AllMatches[i].section = k}) = 1
            /\ \A i \in 1..Len(AllMatches) :
                  /\ AllMatches[i].section \in DOMAIN found
                  /\ AllMatches[i].score = found[AllMatches[i].section].score
            /\ \A i \in 1..Len(m.high_relevance) :
                  m.high_relevance[i].score >= 65
            /\ \A i \in 1..Len(m.medium_relevance) :
                  /\ m.medium_relevance[i].score >= 50
                  /\ m.medium_relevance[i].score < 65
            /\ \A i \in 1..Len(m.low_relevance) :
                  /\ m.low_relevance[i].score >= 40
                  /\ m.low_relevance[i].score < 50

BucketPartitionWitness ==
    /\ Matched
    /\ call.matches.high_relevance # << >>
    /\ call.matches.low_relevance # << >>
    /\ \E i \in 1..Len(call.matches.medium_relevance) :
          call.matches.medium_relevance[i].score = 50

Built == HasProfile /\ "error" \notin DOMAIN profile.embeddings

\* C5: in a built profile, a marked section whose extract_section text is
\* empty or at most 50 characters long has no key in the embeddings.
SubstantialityGate ==
    Built =>
        \A i \in 1..Len(MarkedSections) :
            Width(extract_section(profile.content,
                                  MarkerOf(MarkedSections[i]))) <= 50
            => MarkedSections[i] \notin DOMAIN profile.embeddings

\* C6: for every marked section, the text the builder takes from the
\* profile's content is the text extract_section returns for the section's
\* marker, up to the truncation to 5000 characters.
BuilderAgreesWithExtractor ==
    HasProfile =>
        \A i \in 1..Len(MarkedSections) :
            Take(SectionContent(profile.content, MarkedSections[i]), 5000)
            = Take(extract_section(profile.content,
                                   MarkerOf(MarkedSections[i])), 5000)

\* C7: when a backend call raised during the build, the embeddings are the
\* map with the single key error; and no profile's embeddings hold the key
\* error beside another key.
BackendFailureAllOrNothing ==
    /\ call.op = "scrape_company_data" /\ call.backend_raised
          => DOMAIN profile.embeddings = {"error"}
    /\ HasProfile /\ "error" \in DOMAIN profile.embeddings
          => DOMAIN profile.embeddings = {"error"}

\* the backend raised on the second encode, after a section was embedded
BackendFailureWitness ==
    /\ call.op = "scrape_company_data"
    /\ call.backend_raised
    /\ call.fail.step = 3
    /\ DOMAIN profile.embeddings = {"error"}

\* C8: a search during which the backend fails does not raise, and its
\* result holds exactly the keys that pass with a score of 0.0.
SearchSurvivesBackendFailure ==
    call.op = "search_with_embeddings" /\ call.fail.step \in {1, 2} =>
        /\ ~call.raised
        /\ DOMAIN call.results
              = {k \in DOMAIN profile.embeddings : 0 >= call.threshold}

\* C9: one run creates at most one model instance.
SingleModelInstance == loads <= 1

IsZero(v) == v # << >> /\ \A i \in 1..Len(v) : v[i] = 0

\* C10: calculate_similarity returns 0.0 and does not raise when an
\* argument is None or the empty list, and when both are non-empty lists
\* and one of them is all zero.
SimilarityNoSignal ==
    call.op = "calculate_similarity" =>
        LET a == call.embedding1
            b == call.embedding2
        IN  \/ a = None \/ a = List(<< >>) \/ b = None \/ b = List(<< >>)
            \/ /\ a.kind = "list" /\ b.kind = "list"
               /\ IsZero(a.v) \/ IsZero(b.v)
            => ~call.raised /\ call.value = 0

SimilarityNoSignalWitness ==
    /\ call.op = "calculate_similarity"
    /\ call.embedding1.kind = "list"
    /\ call.embedding2.kind = "list"
    /\ IsZero(call.embedding1.v)
    /\ call.embedding2.v # << >>
    /\ ~IsZero(call.embedding2.v)
    /\ ~call.raised
    /\ call.value = 0

OtherMarkerAt(text, section_marker, p) ==
    \E k \in 1..Len(Markers) :
        Markers[k] # section_marker /\ MatchesAt(text, Markers[k], p)

\* C12: when the marker occurs and a line break follows its first
\* occurrence, extract_section returns the text from that line break to the
\* earliest later position where another marker of the list occurs, or to
\* the end of the text, with surrounding white space removed.
SectionBoundaries ==
    call.op = "extract_section" /\ call.section_marker # << >> =>
        LET text == call.text
            marker == call.section_marker
            first(i) == /\ MatchesAt(text, marker, i)
                        /\ \A q \in 0..(i - 1) : ~MatchesAt(text, marker, q)
            break(i, n) == /\ text[n + 1] = NL
                           /\ \A m \in i..(n - 1) : text[m + 1] # NL
            end(n, e) == /\ OtherMarkerAt(text, marker, e) \/ e = Len(text)
                         /\ \A q \in n..(e - 1) : ~OtherMarkerAt(text, marker, q)
        IN  \A i \in 0..(Len(text) - 1) : first(i) =>
               \A n \in i..(Len(text) - 1) : break(i, n) =>
                  \E e \in n..Len(text) :
                     /\ end(n, e)
                     /\ call.result = Strip(Slice(text, n, e))

\* the section's own marker recurs inside the section and is not a boundary
SectionBoundariesWitness ==
    /\ call.op = "extract_section"
    /\ call.section_marker = AboutMission
    /\ call.result = <<<<"a", 2>>, SP>> \o AboutMission \o <<SP, <<"b", 2>>>>

\* C13: extract_section returns the empty string when the text is empty,
\* when the marker is empty and when the marker does not occur in the text.
EmptyOnMissingInput ==
    call.op = "extract_section" =>
        LET absent == \A p \in 0..Len(call.text) :
                         ~MatchesAt(call.text, call.section_marker, p)
        IN  call.text = << >> \/ call.section_marker = << >> \/ absent
            => call.result = << >>

EmptyOnMissingInputWitness ==
    /\ call.op = "extract_section"
    /\ call.text = CouldNotAccess
    /\ call.section_marker = MainContent
    /\ call.result = << >>

\* C14: the content of every entry of a returned search is read from the
\* profile as it is when the search runs: extract_section of the profile's
\* raw content with the section's marker, and for press the profile's press
\* content.
ContentLookedUpAtSearch ==
    Searched =>
        \A k \in DOMAIN call.results :
            /\ k \in {MarkedSections[i] : i \in 1..Len(MarkedSections)} =>
                  call.results[k].content
                      = extract_section(profile.content, MarkerOf(k))
            /\ k = "press" =>
                  call.results[k].content = profile.press_content

\* an entry whose fresh extraction differs from the text the builder embedded
ContentLookedUpWitness ==
    /\ Searched
    /\ "company_description" \in DOMAIN call.results
    /\ call.results["company_description"].content
          # SectionContent(profile.content, "company_description")

\* C15: once scrape_company_data has returned the profile, no search and
\* no matcher changes any of its fields.
ProfileImmutable == [][HasProfile => profile' = profile]_vars

ProfileImmutableWitness ==
    /\ HasProfile
    /\ call.op = "find_competitor_semantic_mentions"
    /\ ~call.raised
    /\ call.semantic_mentions # << >>

\* C16: a profile whose press content is empty or has at most 50 characters
\* has no press entry in its embeddings.
PressGate ==
    HasProfile /\ Width(profile.press_content) <= MinSubstantial =>
        "press" \notin DOMAIN profile.embeddings

PressGateWitness ==
    /\ HasProfile
    /\ profile.press_content = << >>
    /\ "combined" \in DOMAIN profile.embeddings
    /\ "main_content" \in DOMAIN profile.embeddings

\* the text a section's regex captured in the content, "" without a match
Captured(content, name) ==
    IF SectionMatch(content, name).matched
    THEN SectionMatch(content, name).group
    ELSE << >>

\* C17: a combined entry of the profile's embeddings is the embedding of
\* the first 5000 characters of the company_description text, one space and
\* the about text, and it is there only if that concatenation is not empty.
CombinedEntry ==
    HasProfile /\ "combined" \in DOMAIN profile.embeddings =>
        LET text == Captured(profile.content, "company_description")
                    \o <<SP>> \o Captured(profile.content, "about")
        IN  /\ text # << >>
            /\ profile.embeddings["combined"]
                  = List(Encode(Take(text, MaxEmbedChars)))

\* the limit of 5000 characters cuts the about text off
CombinedEntryWitness ==
    /\ HasProfile
    /\ "combined" \in DOMAIN profile.embeddings
    /\ Captured(profile.content, "company_description")
          = <<<<"a", 3>>, <<"b", 4>>, <<"x", 50>>>>
    /\ Width(Captured(profile.content, "about")) > MaxEmbedChars
    /\ profile.embeddings["combined"] = List(<<3, 4, 0>>)

\* C18: when the company_description and about texts of the content are
\* both empty, the single embedding scrape_company_data stores is the
\* embedding of the whole raw content.
CombinedFallback ==
    /\ call.op = "scrape_company_data"
    /\ call.fail2 = NoFail
    /\ Captured(profile.content, "company_description") = << >>
    /\ Captured(profile.content, "about") = << >>
    => profile.embedding = generate_embedding(profile.content, NoFail).embedding

\* C19: when the backend fails inside generate_embedding, the call does not
\* raise and returns the empty list, and calculate_similarity scores the
\* empty list 0.0 against anything.
EmbeddingFailureGivesEmpty ==
    call.op = "scrape_company_data" /\ call.fail2.step \in {1, 2} =>
        /\ ~call.raised
        /\ call.single = List(<< >>)
        /\ \A e \in SimInputs :
              /\ calculate_similarity(e, call.single)
                    = [raised |-> FALSE, value |-> 0]
              /\ calculate_similarity(call.single, e)
                    = [raised |-> FALSE, value |-> 0]

\* the encode call of generate_embedding fails after the builder succeeded
EmbeddingFailureWitness ==
    /\ call.op = "scrape_company_data"
    /\ call.fail = NoFail
    /\ call.fail2.step = 2
    /\ call.single = List(<< >>)
    /\ "combined" \in DOMAIN profile.embeddings

\* the contexts of the entries of a mentions list that name section k
ContextsOf(mentions, k) ==
    LET own == SelectSeq(mentions, LAMBDA e : e.section = k)
    IN  [i \in 1..Len(own) |-> own[i].context]

\* C20: the competitor matcher searches at threshold 0.6, and for every
\* returned section its entries are, one for one and in order, the trimmed
\* sentences of the section's content (split at line breaks and periods)
\* that are longer than 20 characters and hold at least one comparison
\* phrase in any letter case; every entry carries the section's name and
\* score.
CompetitorFilter ==
    call.op = "find_competitor_semantic_mentions" /\ ~call.raised =>
        LET found == search_with_embeddings(CompetitorQuery(call.competitor_name),
                                            profile, 60, NoFail).results
            m == call.semantic_mentions
            holds(t) == \E phrase \in {"alternative", "competitor", "similar",
                                       "compared", "versus", "vs", "unlike",
                                       "like", "better than"} :
                           PhraseIn(phrase, Lower(t))
            sentences(k) == StripAll(Split(ReplaceBreaks(found[k].content), DOT))
        IN  /\ call.search_results = found
            /\ \A i \in 1..Len(m) :
                  /\ m[i].section \in DOMAIN found
                  /\ m[i].score = found[m[i].section].score
            /\ \A k \in DOMAIN found :
                  ContextsOf(m, k)
                     = SelectSeq(sentences(k),
                                 LAMBDA t : Width(t) > 20 /\ holds(t))

\* a sentence with two phrases is entered once; a fragment with a phrase
\* and a sentence of exactly 20 characters with a phrase are left out
CompetitorFilterWitness ==
    /\ call.op = "find_competitor_semantic_mentions"
    /\ ~call.raised
    /\ Len(call.semantic_mentions) = 3
    /\ call.semantic_mentions[1]
          = [section |-> "main_content", score |-> 80,
             context |-> <<Lit("Unlike"), SP, Lit("LegacyCorp"), Lit(","), SP,
                           <<"x", 20>>>>]

\* C21: for the competitor LegacyCorp and a profile whose content holds the
\* sentence "Unlike LegacyCorp, we offer real-time sync.", the competitor
\* matcher returns an entry whose context holds that sentence (the period
\* that ends it is consumed by the split).
CompetitorScenario ==
    /\ call.op = "find_competitor_semantic_mentions"
    /\ call.fail = NoFail
    /\ call.competitor_name = <<Lit("LegacyCorp")>>
    /\ Find(profile.content, ScenarioSentence \o <<DOT>>, 0) # -1
    => /\ ~call.raised
       /\ \E i \in 1..Len(call.semantic_mentions) :
             Find(call.semantic_mentions[i].context, ScenarioSentence, 0) # -1

SearchOverFailedProfile ==
    /\ call.op \in {"search_with_embeddings", "find_product_category_matches",
                    "find_competitor_semantic_mentions"}
    /\ call.fail = NoFail
    /\ DOMAIN profile.embeddings = {"error"}
    => /\ ~call.raised
       /\ call.op = "search_with_embeddings" => DOMAIN call.results = {}
       /\ call.op # "search_with_embeddings" => DOMAIN call.search_results = {}

\* text has the collector's layout around the description: the title line,
\* a blank line, the description line, a blank line, MAIN HEADINGS:
IsCollectorBlob(text) ==
    /\ MatchesAt(text, <<NL>> \o CompanyName, 0)
    /\ Find(text, CompanyDescription \o <<SP>>, 0) # -1
    /\ Find(text, <<NL, NL>> \o MainHeadings,
            Find(text, CompanyDescription \o <<SP>>, 0)) # -1

NoForeignMarker ==
    call.op = "extract_section" =>
        /\ \A p \in 0..Len(call.result) :
              ~OtherMarkerAt(call.result, call.section_marker, p)
        /\ call.result # << >> =>
              /\ ~IsSpace(call.result[1][1])
              /\ ~IsSpace(call.result[Len(call.result)][1])

\* markers out of order: the section under MAIN CONTENT: ends where COMPANY
\* NAME: follows it, and the line break before that marker is stripped
NoForeignMarkerWitness ==
    /\ call.op = "extract_section"
    /\ call.section_marker = MainContent
    /\ MatchesAt(call.text, MainContent, 0)
    /\ Find(call.text, CompanyName, 0) # -1
    /\ call.result = <<<<"a", 3>>>>

\* C27: generate_insights does not raise and returns a dict that holds the
\* four section keys and raw_response, whatever the chat completion does.
InsightsTotal ==
    call.op = "generate_insights" =>
        /\ ~call.raised
        /\ call.result.kind = "dict"
        /\ {Key("company_strategy"), Key("leadership_information"),
            Key("product_strategy_summary"), Key("article_links"),
            Key("raw_response")} \subseteq DOMAIN call.result.d

\* the response is the JSON text of a list
InsightsTotalWitness ==
    /\ call.op = "generate_insights"
    /\ ~call.outcome.raises
    /\ call.outcome.content # None
    /\ JsonLoads(call.outcome.content.s).ok
    /\ JsonLoads(call.outcome.content.s).value.kind = "list"
    /\ call.result.kind = "dict"
    /\ "company_data" \in DOMAIN call.data

ScanAdvances ==
    [][(call.op = "scan" /\ call'.op = "scan" /\ call'.variant = call.variant)
         => call'.start_pos > call.start_pos]_vars

\* C30: no two entries of the returned list have the same context.
EachMentionOnce ==
    call.op = "find_all_competitor_mentions" =>
        \A i, j \in 1..Len(call.mentions) :
            i # j => call.mentions[i].context # call.mentions[j].context

====
